---- MODULE Spec2Model ----
(***************************************************************************)
(* rustyvectors: an in-memory vector store (src/src/vector_database.rs)    *)
(* with nearest-neighbour search under the Euclidean distance              *)
(* (src/src/distance.rs).                                                  *)
(*                                                                         *)
(* f64 is modelled by a small floating-point format that keeps the IEEE    *)
(* structure the code depends on: the finite values are the integers       *)
(* -MaxFinite..MaxFinite, every operation rounds its exact result to a     *)
(* representable value, a result beyond MaxFinite overflows to an          *)
(* infinity, Inf - Inf is NaN, and NaN propagates and is unordered.        *)
(***************************************************************************)
EXTENDS Integers, Sequences, FiniteSets, TLC

VARIABLES vectors, last, old, rt, a, b, result, pc

vars == <<vectors, last, old, rt, a, b, result, pc>>

-----------------------------------------------------------------------------
(* Bounds *)

\* largest number of vectors the store is grown to
MaxSize == 3
\* largest length of a stored vector or of a query
MaxDim == 1
\* largest length of an argument of euclidean in SpecDist
MaxLen == 2
\* largest finite value of the modelled float format
MaxFinite == 10

-----------------------------------------------------------------------------
(* f64 *)

Inf == MaxFinite + 1
NegInf == 0 - Inf
NaN == MaxFinite + 2

F64 == NegInf..NaN

\* rounding of an exact result: overflow goes to an infinity
Round(n) ==
  IF n > MaxFinite THEN Inf ELSE IF n < 0 - MaxFinite THEN NegInf ELSE n

\* x + y written in the place of x - y
FPlus(x, y) ==
  IF x = NaN \/ y = NaN THEN NaN
  ELSE IF x = Inf THEN (IF y = NegInf THEN NaN ELSE Inf)
  ELSE IF x = NegInf THEN (IF y = Inf THEN NaN ELSE NegInf)
  ELSE IF y \in {Inf, NegInf} THEN y
  ELSE Round(x + y)

\* x - y
FSub(x, y) ==
  IF x = NaN \/ y = NaN THEN NaN
  ELSE IF x = Inf THEN (IF y = Inf THEN NaN ELSE Inf)
  ELSE IF x = NegInf THEN (IF y = NegInf THEN NaN ELSE NegInf)
  ELSE IF y = Inf THEN NegInf
  ELSE IF y = NegInf THEN Inf
  ELSE Round(x - y)

\* x + y
FAdd(x, y) ==
  IF x = NaN \/ y = NaN THEN NaN
  ELSE IF x = Inf THEN (IF y = NegInf THEN NaN ELSE Inf)
  ELSE IF x = NegInf THEN (IF y = Inf THEN NaN ELSE NegInf)
  ELSE IF y \in {Inf, NegInf} THEN y
  ELSE Round(x + y)

\* x.powi(3): the exponent a slip of the hand would give
Powi3(x) ==
  IF x = NaN THEN NaN
  ELSE IF x \in {Inf, NegInf} THEN x
  ELSE Round(x * x * x)

\* x.powi(2)
Powi2(x) ==
  IF x = NaN THEN NaN
  ELSE IF x \in {Inf, NegInf} THEN Inf
  ELSE Round(x * x)

\* the integer nearest to the square root of n >= 0
RECURSIVE ISqrtFrom(_, _)
ISqrtFrom(n, r) == IF (r + 1) * (r + 1) <= n THEN ISqrtFrom(n, r + 1) ELSE r

NearestRoot(n) ==
  LET r == ISqrtFrom(n, 0) IN IF n - r * r > r THEN r + 1 ELSE r

\* x.sqrt(), correctly rounded
FSqrt(x) ==
  IF x = NaN THEN NaN
  ELSE IF x = Inf THEN Inf
  ELSE IF x < 0 THEN NaN
  ELSE NearestRoot(x)

\* f64::partial_cmp
PartialCmp(x, y) ==
  IF x = NaN \/ y = NaN THEN "None"
  ELSE IF x < y THEN "Less"
  ELSE IF x > y THEN "Greater"
  ELSE "Equal"

-----------------------------------------------------------------------------
(* distance::euclidean *)

Min(m, n) == IF m <= n THEN m ELSE n
Max(m, n) == IF m >= n THEN m ELSE n

\* a zip that pads the shorter sequence with 0.0 instead of stopping
ZipPad(x, y) ==
  [i \in 1..Max(Len(x), Len(y)) |->
     <<IF i <= Len(x) THEN x[i] ELSE 0, IF i <= Len(y) THEN y[i] ELSE 0>>]

\* a.iter().zip(b): pairs are produced until either side is exhausted
RECURSIVE Zip(_, _)
Zip(x, y) ==
  IF x = <<>> \/ y = <<>> THEN <<>>
  ELSE <<<<Head(x), Head(y)>>>> \o Zip(Tail(x), Tail(y))

\* .map(|(&x, &y)| (x - y).powi(2))
SqDiffs(ps) == [i \in 1..Len(ps) |-> Powi2(FSub(ps[i][1], ps[i][2]))]

RECURSIVE FoldAdd(_, _)
FoldAdd(acc, s) == IF s = <<>> THEN acc ELSE FoldAdd(FAdd(acc, Head(s)), Tail(s))

\* .sum::<f64>(): a left fold from 0.0
SumF(s) == FoldAdd(0, s)

euclidean(x, y) == FSqrt(SumF(SqDiffs(Zip(x, y))))

-----------------------------------------------------------------------------
(* Option values, unit, and a panic of the call *)

None == [tag |-> "None"]
Some(x) == [tag |-> "Some", val |-> x]
Unit == [tag |-> "Unit"]
Panic == [tag |-> "Panic"]

-----------------------------------------------------------------------------
(* VectorDatabase.  A call is a pure function of the store: it yields the   *)
(* store after the call and the value returned.  Indices are zero-based as  *)
(* in the source; position index of the Vec is element index + 1 here.      *)

new == <<>>

\* vector.to_vec()
ToVec(vector) == [i \in 1..Len(vector) |-> vector[i]]

\* Array1::from_shape_vec(shape, v): Err when the shape is not the length
FromShapeVec(shape, v) == IF shape = Len(v) THEN Some(v) ELSE None

\* self.vectors.insert(0, new_vector) in the place of the push
addFront(vs, vector) ==
  LET new_vector == FromShapeVec(Len(vector), ToVec(vector))
  IN  IF new_vector.tag = "None" THEN [vectors |-> vs, ret |-> Panic]
      ELSE [vectors |-> <<new_vector.val>> \o vs, ret |-> Unit]

add(vs, vector) ==
  LET new_vector == FromShapeVec(Len(vector), ToVec(vector))
  IN  IF new_vector.tag = "None" THEN [vectors |-> vs, ret |-> Panic]
      ELSE [vectors |-> Append(vs, new_vector.val), ret |-> Unit]

\* Vec::swap_remove(index): the last element takes the place of the removed
VecSwapRemove(vs, index) ==
  IF index < Len(vs)
  THEN [panicked |-> FALSE, val |-> vs[index + 1],
        vectors |-> [i \in 1..(Len(vs) - 1) |->
                       IF i = index + 1 THEN vs[Len(vs)] ELSE vs[i]]]
  ELSE [panicked |-> TRUE, val |-> <<>>, vectors |-> vs]

\* Vec::remove(index): panics when index is out of bounds, else takes the
\* element out and shifts every later element one position down
VecRemove(vs, index) ==
  IF index < Len(vs)
  THEN [panicked |-> FALSE, val |-> vs[index + 1],
        vectors |-> [i \in 1..(Len(vs) - 1) |->
                       IF i <= index THEN vs[i] ELSE vs[i + 1]]]
  ELSE [panicked |-> TRUE, val |-> <<>>, vectors |-> vs]

\* the bounds test written index <= len
removeLe(vs, index) ==
  IF index <= Len(vs)
  THEN LET r == VecRemove(vs, index)
       IN  [vectors |-> r.vectors,
            ret |-> IF r.panicked THEN Panic ELSE Some(r.val)]
  ELSE [vectors |-> vs, ret |-> None]

\* the element before the one asked for is removed
removePrev(vs, index) ==
  IF index < Len(vs)
  THEN LET r == VecRemove(vs, IF index > 0 THEN index - 1 ELSE 0)
       IN  [vectors |-> r.vectors,
            ret |-> IF r.panicked THEN Panic ELSE Some(r.val)]
  ELSE [vectors |-> vs, ret |-> None]

remove(vs, index) ==
  IF index < Len(vs)
  THEN LET r == VecRemove(vs, index)
       IN  [vectors |-> r.vectors,
            ret |-> IF r.panicked THEN Panic ELSE Some(r.val)]
  ELSE [vectors |-> vs, ret |-> None]

\* Vec::get(index)
VecGet(vs, index) == IF index < Len(vs) THEN Some(vs[index + 1]) ELSE None

get(vs, index) ==
  IF index < Len(vs)
  THEN LET o == VecGet(vs, index)
       IN  [vectors |-> vs, ret |-> IF o.tag = "None" THEN Panic ELSE o]
  ELSE [vectors |-> vs, ret |-> None]

\* dist1.partial_cmp(&dist2).unwrap()
CmpUnwrap(dist1, dist2) ==
  LET c == PartialCmp(dist1, dist2) IN IF c = "None" THEN "Panic" ELSE c

\* dist1.partial_cmp(&dist2).unwrap_or(Ordering::Equal)
Cmp(dist1, dist2) ==
  LET c == PartialCmp(dist1, dist2) IN IF c = "None" THEN "Equal" ELSE c

\* what max_by keeps of two elements
PickMax(c, x, y) == IF c = "Greater" THEN x ELSE y

\* a minimum that gives way to a later equal element
PickLast(c, x, y) == IF c = "Less" THEN x ELSE y

\* what min_by keeps of two elements: the later one only when the earlier
\* one compares Greater
Pick(c, x, y) == IF c = "Greater" THEN y ELSE x

\* .min_by(..) after the first element: a left-to-right reduction
RECURSIVE MinByFold(_, _)
MinByFold(best, rest) ==
  IF rest = <<>> THEN [panicked |-> FALSE, val |-> best]
  ELSE LET c == Cmp(best[2], Head(rest)[2])
       IN  IF c = "Panic" THEN [panicked |-> TRUE, val |-> best]
           ELSE MinByFold(Pick(c, best, Head(rest)), Tail(rest))

\* .iter().enumerate().map(|(i, v)| (i, euclidean(&v.view(), &query_array)))
Distances(vs, query) ==
  [i \in 1..Len(vs) |-> <<i - 1, euclidean(vs[i], query)>>]

nearest(vs, query) ==
  IF vs = <<>> THEN [vectors |-> vs, ret |-> None]
  ELSE LET ds == Distances(vs, query)
       IN  IF ds = <<>> THEN [vectors |-> vs, ret |-> None]
           ELSE LET m == MinByFold(Head(ds), Tail(ds))
                IN  [vectors |-> vs,
                     ret |-> IF m.panicked THEN Panic ELSE Some(m.val[1])]

-----------------------------------------------------------------------------
(* Inputs *)

Vecs(n, E) == UNION {[1..k -> E] : k \in 0..n}

\* elements of the vectors added to the store, and of the queries
StoreElems == {1, NaN}
QueryElems == {0, 1, NaN}
StoreVecs == Vecs(MaxDim, StoreElems)
Queries == Vecs(MaxDim, QueryElems)
Indices == 0..MaxSize

\* elements of the arguments of euclidean in SpecDist
DistElems == {0 - 1, 0, 2, Inf, NaN}
DistVecs == Vecs(MaxLen, DistElems)

-----------------------------------------------------------------------------
(* The store under its callers.  last is the last call with its argument   *)
(* and returned value, old the store before that call; rt records an add   *)
(* immediately followed by the removal of the last index.                   *)

NoCall == [name |-> "new", idx |-> 0, vec |-> <<>>, ret |-> Unit]
RtOff == [on |-> FALSE, before |-> <<>>, v |-> <<>>]

Init ==
  /\ vectors = new
  /\ last = NoCall
  /\ old = <<>>
  /\ rt = RtOff
  /\ a = <<>> /\ b = <<>> /\ result = 0 /\ pc = "idle"

Add(v) ==
  /\ Len(vectors) < MaxSize
  /\ LET r == add(vectors, v)
     IN  /\ vectors' = r.vectors
         /\ last' = [name |-> "add", idx |-> 0, vec |-> v, ret |-> r.ret]
  /\ old' = vectors
  /\ rt' = RtOff
  /\ UNCHANGED <<a, b, result, pc>>

Remove(index) ==
  /\ LET r == remove(vectors, index)
     IN  /\ vectors' = r.vectors
         /\ last' = [name |-> "remove", idx |-> index, vec |-> <<>>, ret |-> r.ret]
  /\ old' = vectors
  /\ rt' = IF last.name = "add" /\ index = Len(vectors) - 1
           THEN [on |-> TRUE, before |-> old, v |-> last.vec]
           ELSE RtOff
  /\ UNCHANGED <<a, b, result, pc>>

Get(index) ==
  /\ LET r == get(vectors, index)
     IN  /\ vectors' = r.vectors
         /\ last' = [name |-> "get", idx |-> index, vec |-> <<>>, ret |-> r.ret]
  /\ old' = vectors
  /\ rt' = RtOff
  /\ UNCHANGED <<a, b, result, pc>>

Nearest(query) ==
  /\ LET r == nearest(vectors, query)
     IN  /\ vectors' = r.vectors
         /\ last' = [name |-> "nearest", idx |-> 0, vec |-> query, ret |-> r.ret]
  /\ old' = vectors
  /\ rt' = RtOff
  /\ UNCHANGED <<a, b, result, pc>>

Next ==
  \/ \E v \in StoreVecs : Add(v)
  \/ \E index \in Indices : Remove(index)
  \/ \E index \in Indices : Get(index)
  \/ \E query \in Queries : Nearest(query)

Spec == Init /\ [][Next]_vars

-----------------------------------------------------------------------------
(* euclidean under its callers: any two arguments, one call *)

InitDist ==
  /\ a \in DistVecs
  /\ b \in DistVecs
  /\ result = 0
  /\ pc = "call"
  /\ vectors = new /\ last = NoCall /\ old = <<>> /\ rt = RtOff

CallEuclidean ==
  /\ pc = "call"
  /\ result' = euclidean(a, b)
  /\ pc' = "done"
  /\ UNCHANGED <<vectors, last, old, rt, a, b>>

NextDist == CallEuclidean

SpecDist == InitDist /\ [][NextDist]_vars

-----------------------------------------------------------------------------
(* Properties of the store: Spec *)

\* the order of f64: a comparison with NaN is false
FLe(x, y) == x # NaN /\ y # NaN /\ x <= y
FLt(x, y) == x # NaN /\ y # NaN /\ x < y
FGt(x, y) == x # NaN /\ y # NaN /\ x > y

OldIndices == 0..(Len(old) - 1)

\* distance from the query of the last nearest call to the stored vector j
DistTo(j) == euclidean(old[j + 1], last.vec)

AllOrdered == \A j \in OldIndices : DistTo(j) # NaN

\* indices whose distance is ordered and which no other distance is below
AtMinimum ==
  {k \in OldIndices :
     DistTo(k) # NaN /\ \A j \in OldIndices : ~FLt(DistTo(j), DistTo(k))}

\* C1: on a non-empty store whose distances to the query are all ordered,
\* nearest returns an index whose distance is <= the distance of every index.
C1_NearestIsMinimum ==
  (last.name = "nearest" /\ old # <<>> /\ AllOrdered) =>
     /\ last.ret.tag = "Some"
     /\ last.ret.val \in OldIndices
     /\ \A j \in OldIndices : FLe(DistTo(last.ret.val), DistTo(j))

C1_Witness ==
  /\ last.name = "nearest"
  /\ Len(old) = 3
  /\ AllOrdered
  /\ last.ret = Some(1)
  /\ FGt(DistTo(0), DistTo(1))
  /\ FGt(DistTo(2), DistTo(1))

\* C2 as stated: whenever several stored vectors are at the same minimum
\* distance, nearest returns the lowest index among them and every lower
\* index has a strictly greater distance.
C2_Original ==
  (last.name = "nearest" /\ Cardinality(AtMinimum) >= 2) =>
     /\ last.ret.tag = "Some"
     /\ last.ret.val \in AtMinimum
     /\ \A k \in AtMinimum : last.ret.val <= k
     /\ \A j \in OldIndices :
          j < last.ret.val => FGt(DistTo(j), DistTo(last.ret.val))

\* C2 amended: the same, when all distances to the query are ordered (no
\* NaN): among several vectors at the minimum distance the lowest index is
\* returned, and every lower index has a strictly greater distance.
C2_FirstMinimumWhenOrdered ==
  (last.name = "nearest" /\ AllOrdered /\ Cardinality(AtMinimum) >= 2) =>
     /\ last.ret.tag = "Some"
     /\ last.ret.val \in AtMinimum
     /\ \A k \in AtMinimum : last.ret.val <= k
     /\ \A j \in OldIndices :
          j < last.ret.val => FGt(DistTo(j), DistTo(last.ret.val))

C2_Witness ==
  /\ last.name = "nearest"
  /\ AllOrdered
  /\ AtMinimum = {1, 2}
  /\ last.ret = Some(1)

\* C3: nearest never fails, returns not-found exactly when the store is
\* empty, and otherwise an index of the store, NaN distances included.
C3_NearestTotal ==
  last.name = "nearest" =>
     /\ last.ret.tag \in {"None", "Some"}
     /\ (last.ret.tag = "None") <=> (old = <<>>)
     /\ last.ret.tag = "Some" => last.ret.val \in OldIndices
     /\ vectors = old

C3_Witness ==
  /\ last.name = "nearest"
  /\ Len(old) = 3
  /\ DistTo(0) # NaN
  /\ DistTo(1) = NaN
  /\ DistTo(2) # NaN
  /\ last.ret.tag = "Some"

\* C4: remove(index) with index < size returns the vector that was at
\* index, makes the size one less, keeps every position below index and
\* moves every position above index one down.
C4_RemoveShifts ==
  (last.name = "remove" /\ last.idx < Len(old)) =>
     /\ last.ret = Some(old[last.idx + 1])
     /\ Len(vectors) = Len(old) - 1
     /\ \A j \in OldIndices : j < last.idx => vectors[j + 1] = old[j + 1]
     /\ \A j \in OldIndices : j > last.idx => vectors[j] = old[j + 1]

C4_Witness ==
  /\ last.name = "remove"
  /\ last.idx = 1
  /\ Len(old) = 3
  /\ old[1] # old[2]
  /\ old[2] # old[3]
  /\ old[1] # old[3]
  /\ vectors = <<old[1], old[3]>>

\* C5: remove(index) and get(index) with index >= size return not-found
\* and leave the store as it was.
C5_OutOfRangeNotFound ==
  (last.name \in {"remove", "get"} /\ last.idx >= Len(old)) =>
     /\ last.ret = None
     /\ vectors = old

C5_Witness ==
  /\ last.name = "remove"
  /\ Len(old) = 2
  /\ last.idx = 2
  /\ last.ret = None

\* C6: add(v) on a store of size n succeeds and gives a store of size n + 1
\* where get(n) is v and get(j), j < n, is what it was.
C6_AddAppends ==
  last.name = "add" =>
     /\ last.ret = Unit
     /\ Len(vectors) = Len(old) + 1
     /\ get(vectors, Len(old)).ret = Some(last.vec)
     /\ \A j \in OldIndices : get(vectors, j).ret = get(old, j).ret

C6_Witness ==
  /\ last.name = "add"
  /\ Len(old) = 2
  /\ last.vec # old[1]
  /\ last.vec # old[2]
  /\ get(vectors, 2).ret = Some(last.vec)

\* C7: add(v) immediately followed by remove(size - 1) returns v and
\* leaves the store as it was before the add.
C7_AddRemoveRoundTrip ==
  rt.on =>
     /\ last.name = "remove"
     /\ last.ret = Some(rt.v)
     /\ Len(vectors) = Len(rt.before)
     /\ vectors = rt.before

C7_Witness ==
  /\ rt.on
  /\ Len(rt.before) = 2
  /\ rt.v # rt.before[2]
  /\ last.ret = Some(rt.v)

-----------------------------------------------------------------------------
(* Properties of euclidean: SpecDist *)

Common == Min(Len(a), Len(b))

\* the sum of the squared differences over the positions 1..n
RECURSIVE SumSq(_)
SumSq(n) ==
  IF n = 0 THEN 0 ELSE FAdd(SumSq(n - 1), Powi2(FSub(a[n], b[n])))

AllFinite(x) == \A i \in 1..Len(x) : x[i] \notin {Inf, NegInf, NaN}

\* C8: euclidean(a, b) is the square root of the sum of the squared
\* differences over the first min(len a, len b) positions only; what lies
\* past the shorter length does not count, no error is raised, and two
\* empty sequences give 0.
C8_TruncatedEuclidean ==
  pc = "done" =>
     /\ result \in F64
     /\ result = FSqrt(SumSq(Common))
     /\ result = euclidean(SubSeq(a, 1, Common), SubSeq(b, 1, Common))
     /\ (a = <<>> /\ b = <<>>) => result = 0

C8_Witness ==
  /\ pc = "done"
  /\ Len(a) = 1
  /\ Len(b) = 2
  /\ b[2] \notin {0, NaN}
  /\ result = 2

VecEq(x, y) ==
  Len(x) = Len(y) /\ \A i \in 1..Len(x) : x[i] # NaN /\ y[i] # NaN /\ x[i] = y[i]

\* C10 as stated: the distance from any vector to an equal vector is 0.
C10_Original == (pc = "done" /\ VecEq(a, b)) => result = 0

\* C10 amended: the distance from a vector whose elements are all finite
\* to an equal vector is exactly 0.
C10_ZeroOnEqualFinite ==
  (pc = "done" /\ a = b /\ AllFinite(a)) => result = 0

C10_Witness ==
  /\ pc = "done"
  /\ a = b
  /\ Len(a) = 2
  /\ AllFinite(a)
  /\ a[1] # a[2]
  /\ result = 0

====
